---- MODULE Spec2Model ----
(***************************************************************************)
(* NeuroSputnik: the embedded inference engine (OllamaWebEngine, sw.js),   *)
(* the bounded training-corpus builder (DatasetBuilder,                    *)
(* learning/dataset-builder.js) and the application that owns one of each  *)
(* (NeuroSputnikApp, unnamed/part_000).                                    *)
(*                                                                         *)
(* Six specifications share the variables:                                 *)
(*   SpecEngine   the engine's calls, one action per call or per           *)
(*                continuation after an await;                             *)
(*   SpecStore    sequences of recordConversation / recordGameData on a    *)
(*                few sample inputs, some of them larger than maxStorage;  *)
(*   SpecClassify recordConversation over every message of the feature     *)
(*                product (length x keyword hits), one record per run;     *)
(*   SpecSessions sequences of recordGameData over a few accuracies, long  *)
(*                enough for the window of calculateImprovementRate;       *)
(*   SpecSnapshot a store with exportDataset and importDataset, the files  *)
(*                being its own exports and a few others;                  *)
(*   SpecApp      the application: its start-up, sendMessage and           *)
(*                startTraining, each step with the engine and store       *)
(*                calls it makes.                                          *)
(*                                                                         *)
(* Units.  Weights are held in thousandths (1.0 is 1000), so that the      *)
(* products 1.2 * 1.5 * 0.7 are exact; sizes are bytes.                    *)
(***************************************************************************)
EXTENDS Integers, Sequences, FiniteSets, Bags, TLC

VARIABLES
    \* OllamaWebEngine
    isInitialized,   \* this.isInitialized
    isRunning,       \* this.isRunning (set in the constructor, never written again)
    currentModel,    \* this.currentModel: NoModel (null) or a model name
    models,          \* this.models: a function from the keys present to descriptors
    instance,        \* this.instance: NoInstance (undefined) or the runtime's generation
    hostStreaming,   \* whether the host has WebAssembly.instantiateStreaming
    heap,            \* addresses allocated in the current runtime's linear memory
    runtimeModel,    \* whether the current runtime instance has accepted a model
    pendingInit,     \* initialize() calls suspended at their awaits
    pendingSave,     \* saveModel() calls suspended at await _saveToIndexedDB
    lastCall,        \* what the most recent engine step did and returned
    \* DatasetBuilder
    conversations,   \* this.conversations
    gameData,        \* this.gameData
    userPreferences, \* this.userPreferences
    clock,           \* Date.now(), as a logical clock
    lastCleanup,     \* what the most recent checkStorageLimit saw and whether it evicted
    returned,        \* what the most recent DatasetBuilder call returned
    exported,        \* the file of the latest exportDataset, and the store it was taken of
    pendingImport,   \* importDataset() calls whose FileReader has not fired yet
    \* NeuroSputnikApp
    ollamaEngine,    \* whether this.ollamaEngine holds an engine (null otherwise)
    datasetBuilder,  \* whether this.datasetBuilder holds a store (null otherwise)
    appInitialized,  \* this.isInitialized of the application
    appPending,      \* where init() is: "new" (not called), suspended at "initialize"
                     \* or at "fetch", or "none" (returned)
    conversationHistory, \* this.conversationHistory
    lastApp,         \* what the most recent application step did
    answered         \* the <<message, reply>> pairs answered without a model so far

engineVars == <<isInitialized, isRunning, currentModel, models, instance,
                hostStreaming, heap, runtimeModel, pendingInit, pendingSave, lastCall>>
storeVars == <<conversations, gameData, userPreferences, clock, lastCleanup, returned,
               exported, pendingImport>>
appVars == <<ollamaEngine, datasetBuilder, appInitialized, appPending,
             conversationHistory, lastApp, answered>>
vars == <<engineVars, storeVars, appVars>>

Min(a, b) == IF a <= b THEN a ELSE b

\* The values the variables of the store and of the application hold before
\* anything has been exported, imported or sent.
NoPreferences == [x \in {} |-> 0]
NoText == [syntax |-> "none"]
NothingExported ==
    [text |-> NoText, conversations |-> <<>>, gameData |-> <<>>,
     userPreferences |-> NoPreferences]
NoAppStep ==
    [op |-> "none", message |-> <<>>, replies |-> <<>>, generate |-> FALSE,
     batch |-> -1, thrown |-> FALSE]

(***************************************************************************)
(* Bounds of the model.                                                    *)
(***************************************************************************)
ArenaSlots == 3        \* allocations the runtime's arena can hold at once
MaxPendingSave == 2    \* saveModel calls suspended at once
MaxPendingInit == 1    \* initialize calls suspended at once
MaxInstances == 2      \* runtime instances ever installed
MaxInserts == 5        \* records inserted into the store in one run

(***************************************************************************)
(* OllamaWebEngine (sw.js 104-353)                                         *)
(***************************************************************************)
NoModel == "null"
NoInstance == 0
\* The names and blob lengths loadModel is called with.  Both names are
\* non-empty: an empty name, which !this.currentModel would read as no model,
\* is not among the inputs.
ModelNames == {"tiny-llama", "custom"}
BlobSizes == {0, 4}

\* The four calls that share the runtime's arena.
SerializedOps == {"loadModel", "generate", "train", "saveModel"}

\* What the foreign side of a call can do.  "ok" is the normal return; the
\* others are the failures the code has a path for.
LoadFaults == {"ok", "allocThrows", "callThrows", "nonzero"}
GenerateFaults == {"ok", "allocThrows", "callThrows", "zeroPtr"}
TrainFaults == {"ok", "allocThrows", "callThrows", "nonzero"}
ExportFaults == {"ok", "callThrows"}
PersistOutcomes == {"ok", "rejected"}
InitOutcomes == {"ok", "fetchFails", "instantiateFails"}
FreeOutcomes == {"ok", "trap"}

\* The calls of SerializedOps that are suspended at an await.
Outstanding == BagCardinality(pendingSave)

\* What a step did: the call, what the foreign side did in it ("none" when it
\* was not reached), what the call returned or threw, the allocations it
\* obtained, the foreign exports it called, the calls outstanding beside it,
\* the addresses it read the linear memory at and passed to free_memory
\* (none, unless the step says otherwise), and for a loadModel that
\* succeeded the name and the blob length it was called with.
Call(op, foreign, result, allocs, calls) ==
    [op |-> op, foreign |-> foreign, result |-> result, allocs |-> allocs,
     calls |-> calls, overlap |-> Outstanding, reads |-> {}, frees |-> {},
     args |-> <<>>]

\* The engine state of the design, read off the fields.
EngineState ==
    IF ~isInitialized THEN "Uninitialized"
    ELSE IF currentModel = NoModel THEN "Ready"
    ELSE "ModelLoaded"

\* if (!this.currentModel), the guard of generateResponse, trainOnData, saveModel
modelNotLoaded_checksInitialized == ~isInitialized

modelNotLoaded == currentModel = NoModel

FreeSlots == (1..ArenaSlots) \ heap

\* allocate_memory and the runtime's own buffers, as a first-fit allocator.
Lowest(S) == CHOOSE p \in S : \A q \in S : p <= q

\* initialize(), up to its first await.
initializeBegin ==
    /\ UNCHANGED <<isInitialized, isRunning, currentModel, models, instance,
                   hostStreaming, heap, runtimeModel, pendingSave>>
    /\ IF ~hostStreaming
       THEN /\ lastCall' = Call("initialize", "unsupported", "false", 0, 0)
            /\ UNCHANGED pendingInit
       ELSE /\ pendingInit < MaxPendingInit
            /\ pendingInit' = pendingInit + 1
            /\ lastCall' = Call("initialize", "none", "pending", 0, 0)

\* initialize(): the catch, return false.
initializeFailure_flagSet ==
    /\ isInitialized' = TRUE
    /\ UNCHANGED <<instance, heap, runtimeModel>>

initializeFailure == UNCHANGED <<instance, isInitialized, heap, runtimeModel>>

\* initialize(), resumed after fetch / arrayBuffer / instantiate.  A new
\* runtime instance brings a new, empty linear memory and no model.
initializeResume(outcome) ==
    /\ pendingInit > 0
    /\ pendingInit' = pendingInit - 1
    /\ UNCHANGED <<isRunning, currentModel, models, hostStreaming, pendingSave>>
    /\ IF outcome = "ok"
       THEN /\ instance < MaxInstances
            /\ instance' = instance + 1
            /\ isInitialized' = TRUE
            /\ heap' = {}
            /\ runtimeModel' = FALSE
            /\ lastCall' = Call("initialize", outcome, "true", 0, 0)
       ELSE /\ initializeFailure
            /\ lastCall' = Call("initialize", outcome, "false", 0, 0)

\* loadModel(): a nonzero result or a throw after the allocation ends in the
\* catch, return false; currentModel and models are assigned on result 0 only.
loadModelFailure_cleared(modelName) ==
    /\ currentModel' = NoModel
    /\ UNCHANGED <<models, runtimeModel>>

loadModelFailure_assigned(modelName) ==
    /\ currentModel' = modelName
    /\ UNCHANGED <<models, runtimeModel>>

loadModelFailure(modelName) == UNCHANGED <<currentModel, models, runtimeModel>>

\* this.models = { [modelName]: {...} }: the map started over.
modelsWith_only(modelName, size) ==
    [n \in {modelName} |-> [loaded |-> TRUE, size |-> size]]

\* loadModel without the assignment to this.models[modelName].
modelsWith_unrecorded(modelName, size) == models

\* this.models[modelName] = { loaded: true, size: modelBuffer.length }
modelsWith(modelName, size) ==
    [n \in DOMAIN models \cup {modelName} |->
        IF n = modelName THEN [loaded |-> TRUE, size |-> size] ELSE models[n]]

\* loadModel(modelName, modelData): no await inside, so one step.  modelPtr
\* is not passed to free_memory on any path.
loadModel(modelName, size, fault) ==
    /\ UNCHANGED <<isInitialized, isRunning, instance, hostStreaming, pendingInit,
                   pendingSave>>
    /\ IF ~isInitialized
       THEN /\ fault = "ok"
            /\ lastCall' = Call("loadModel", "none", "EngineNotReady", 0, 0)
            /\ UNCHANGED <<currentModel, models, heap, runtimeModel>>
       ELSE IF fault = "allocThrows"
       THEN /\ lastCall' = Call("loadModel", fault, "false", 0, 1)
            /\ UNCHANGED <<currentModel, models, heap, runtimeModel>>
       ELSE /\ FreeSlots # {}
            /\ LET modelPtr == Lowest(FreeSlots) IN heap' = heap \cup {modelPtr}
            /\ IF fault = "ok"
               THEN /\ currentModel' = modelName
                    /\ models' = modelsWith(modelName, size)
                    /\ runtimeModel' = TRUE
                    /\ lastCall' = [Call("loadModel", fault, "true", 1, 2)
                                       EXCEPT !.args = <<modelName, size>>]
               ELSE /\ loadModelFailure(modelName)
                    /\ lastCall' = Call("loadModel", fault, "false", 1, 2)

\* generateResponse without if (responsePtr === 0): the string at address 0
\* is read and returned, and address 0 is freed with promptPtr.
generateZeroPointer_unchecked(promptPtr) ==
    /\ heap' = (heap \cup {promptPtr}) \ {promptPtr}
    /\ lastCall' = [Call("generate", "zeroPtr", "text", 1, 4)
                       EXCEPT !.reads = {0}, !.frees = {0, promptPtr}]

\* generateResponse: if (responsePtr === 0) throw, before the response is
\* read and before either free_memory.
generateZeroPointer(promptPtr) ==
    /\ heap' = heap \cup {promptPtr}
    /\ lastCall' = Call("generate", "zeroPtr", "GenerationFailed", 1, 2)

\* generateResponse(prompt, options): no await inside, so one step.  promptPtr
\* and responsePtr are freed on the success path only.
generateResponse(fault) ==
    /\ UNCHANGED <<isInitialized, isRunning, currentModel, models, instance,
                   hostStreaming, runtimeModel, pendingInit, pendingSave>>
    /\ IF modelNotLoaded
       THEN /\ fault = "ok"
            /\ lastCall' = Call("generate", "none", "EngineNotReady", 0, 0)
            /\ UNCHANGED heap
       ELSE IF fault = "allocThrows"
       THEN /\ lastCall' = Call("generate", fault, "ForeignError", 0, 1)
            /\ UNCHANGED heap
       ELSE /\ FreeSlots # {}
            /\ LET promptPtr == Lowest(FreeSlots) IN
               CASE fault = "callThrows" ->
                      /\ heap' = heap \cup {promptPtr}
                      /\ lastCall' = Call("generate", fault, "ForeignError", 1, 2)
                 [] fault = "zeroPtr" -> generateZeroPointer(promptPtr)
                 [] OTHER ->
                      /\ FreeSlots \ {promptPtr} # {}
                      /\ LET responsePtr == Lowest(FreeSlots \ {promptPtr}) IN
                         /\ heap' = (heap \cup {promptPtr, responsePtr})
                                       \ {responsePtr, promptPtr}
                         /\ lastCall' = [Call("generate", fault, "text", 2, 4)
                                            EXCEPT !.reads = {responsePtr},
                                                   !.frees = {responsePtr, promptPtr}]

\* trainOnData, were it to return true whatever train_model returned.
trainingResult_ignored(status) == "true"

\* trainOnData: if (result === 0) return true; otherwise the throw ends in
\* the catch, return false.
trainingResult(status) == IF status = "ok" THEN "true" ELSE "false"

\* trainOnData(trainingData, epochs): no await inside, so one step.
\* trainingPtr is freed once train_model has returned, whatever its status.
trainOnData(fault) ==
    /\ UNCHANGED <<isInitialized, isRunning, currentModel, models, instance,
                   hostStreaming, runtimeModel, pendingInit, pendingSave>>
    /\ IF modelNotLoaded
       THEN /\ fault = "ok"
            /\ lastCall' = Call("train", "none", "EngineNotReady", 0, 0)
            /\ UNCHANGED heap
       ELSE IF fault = "allocThrows"
       THEN /\ lastCall' = Call("train", fault, "false", 0, 1)
            /\ UNCHANGED heap
       ELSE /\ FreeSlots # {}
            /\ LET trainingPtr == Lowest(FreeSlots) IN
               CASE fault = "callThrows" ->
                      /\ heap' = heap \cup {trainingPtr}
                      /\ lastCall' = Call("train", fault, "false", 1, 2)
                 [] OTHER ->
                      /\ heap' = (heap \cup {trainingPtr}) \ {trainingPtr}
                      /\ lastCall' = [Call("train", fault, trainingResult(fault), 1, 3)
                                         EXCEPT !.frees = {trainingPtr}]

\* saveModel, were its catch to forget the current model.
saveModelBegin_forgets(modelName, fault) ==
    /\ UNCHANGED <<isInitialized, isRunning, models, instance,
                   hostStreaming, runtimeModel, pendingInit>>
    /\ IF modelNotLoaded
       THEN /\ fault = "ok"
            /\ lastCall' = Call("saveModel", "none", "EngineNotReady", 0, 0)
            /\ UNCHANGED <<heap, pendingSave, currentModel>>
       ELSE IF fault = "callThrows"
       THEN /\ lastCall' = Call("saveModel", fault, "false", 0, 1)
            /\ currentModel' = NoModel
            /\ UNCHANGED <<heap, pendingSave>>
       ELSE /\ FreeSlots # {}
            /\ Outstanding < MaxPendingSave
            /\ UNCHANGED currentModel
            /\ LET modelPtr == Lowest(FreeSlots) IN
               /\ heap' = heap \cup {modelPtr}
               /\ pendingSave' = pendingSave (+) SetToBag({modelPtr})
               /\ lastCall' = [Call("saveModel", fault, "pending", 1, 2)
                                  EXCEPT !.reads = {modelPtr}]

\* saveModel(modelName), up to await this._saveToIndexedDB.  export_model
\* hands out a buffer in the arena, which the engine has to free; after the
\* await modelName is only logged, so the suspended call holds modelPtr alone.
saveModelBegin(modelName, fault) ==
    /\ UNCHANGED <<isInitialized, isRunning, currentModel, models, instance,
                   hostStreaming, runtimeModel, pendingInit>>
    /\ IF modelNotLoaded
       THEN /\ fault = "ok"
            /\ lastCall' = Call("saveModel", "none", "EngineNotReady", 0, 0)
            /\ UNCHANGED <<heap, pendingSave>>
       ELSE IF fault = "callThrows"
       THEN /\ lastCall' = Call("saveModel", fault, "false", 0, 1)
            /\ UNCHANGED <<heap, pendingSave>>
       ELSE /\ FreeSlots # {}
            /\ Outstanding < MaxPendingSave
            /\ LET modelPtr == Lowest(FreeSlots) IN
               /\ heap' = heap \cup {modelPtr}
               /\ pendingSave' = pendingSave (+) SetToBag({modelPtr})
               /\ lastCall' = [Call("saveModel", fault, "pending", 1, 2)
                                  EXCEPT !.reads = {modelPtr}]

\* saveModel(modelName), resumed once the persistence promise has settled.
\* free_memory acts on this.instance as it is now; on an address the current
\* runtime never handed out, what it does is the runtime's choice: it traps
\* (the catch returns false) or it ignores the call.
saveModelResume(modelPtr, outcome, freed) ==
    /\ BagIn(modelPtr, pendingSave)
    /\ pendingSave' = pendingSave (-) SetToBag({modelPtr})
    /\ UNCHANGED <<isInitialized, isRunning, currentModel, models, instance,
                   hostStreaming, runtimeModel, pendingInit>>
    /\ IF outcome = "rejected"
       THEN /\ freed = "ok"
            /\ UNCHANGED heap
            /\ lastCall' = [Call("saveModel", outcome, "false", 0, 0)
                               EXCEPT !.overlap = Outstanding - 1]
       ELSE IF modelPtr \in heap
       THEN /\ freed = "ok"
            /\ heap' = heap \ {modelPtr}
            /\ lastCall' = [Call("saveModel", outcome, "true", 0, 1)
                               EXCEPT !.overlap = Outstanding - 1, !.frees = {modelPtr}]
       ELSE /\ UNCHANGED heap
            /\ lastCall' = [Call("saveModel", freed, IF freed = "ok" THEN "true" ELSE "false",
                                 0, 1)
                               EXCEPT !.overlap = Outstanding - 1, !.frees = {modelPtr}]

\* getMemoryUsage(): synchronous.
getMemoryUsage(fault) ==
    /\ UNCHANGED <<isInitialized, isRunning, currentModel, models, instance,
                   hostStreaming, heap, runtimeModel, pendingInit, pendingSave>>
    /\ IF ~isInitialized
       THEN /\ fault = "ok"
            /\ lastCall' = Call("getMemoryUsage", "none", "0", 0, 0)
       ELSE lastCall' = Call("getMemoryUsage", fault,
                             IF fault = "ok" THEN "usage" ELSE "ForeignError",
                             0, IF fault = "ok" THEN 2 ELSE 1)

\* A new engine and a new, empty store, on a host of either kind.
InitEngine ==
    /\ isInitialized = FALSE
    /\ isRunning = FALSE
    /\ currentModel = NoModel
    /\ models = [n \in {} |-> NoModel]
    /\ instance = NoInstance
    /\ hostStreaming \in BOOLEAN
    /\ heap = {}
    /\ runtimeModel = FALSE
    /\ pendingInit = 0
    /\ pendingSave = EmptyBag
    /\ lastCall = [op |-> "constructor", foreign |-> "none", result |-> "ok",
                   allocs |-> 0, calls |-> 0, overlap |-> 0, reads |-> {}, frees |-> {},
                   args |-> <<>>]
    /\ conversations = <<>>
    /\ gameData = <<>>
    /\ userPreferences = NoPreferences
    /\ clock = 0
    /\ lastCleanup = [ran |-> FALSE, conversations |-> <<>>, gameData |-> <<>>]
    /\ returned = [op |-> "constructor", value |-> <<>>]
    /\ exported = NothingExported
    /\ pendingImport = EmptyBag
    /\ ollamaEngine = FALSE
    /\ datasetBuilder = FALSE
    /\ appInitialized = FALSE
    /\ appPending = "new"
    /\ conversationHistory = <<>>
    /\ lastApp = NoAppStep
    /\ answered = {}

\* The engine driven on its own: the store and the application stay as they are.
NextEngine ==
    \/ initializeBegin /\ UNCHANGED <<storeVars, appVars>>
    \/ \E outcome \in InitOutcomes :
          initializeResume(outcome) /\ UNCHANGED <<storeVars, appVars>>
    \/ \E n \in ModelNames, size \in BlobSizes, fault \in LoadFaults :
          loadModel(n, size, fault) /\ UNCHANGED <<storeVars, appVars>>
    \/ \E fault \in GenerateFaults :
          generateResponse(fault) /\ UNCHANGED <<storeVars, appVars>>
    \/ \E fault \in TrainFaults :
          trainOnData(fault) /\ UNCHANGED <<storeVars, appVars>>
    \/ \E n \in ModelNames, fault \in ExportFaults :
          saveModelBegin(n, fault) /\ UNCHANGED <<storeVars, appVars>>
    \/ \E p \in 1..ArenaSlots, outcome \in PersistOutcomes, freed \in FreeOutcomes :
          saveModelResume(p, outcome, freed) /\ UNCHANGED <<storeVars, appVars>>
    \/ \E fault \in ExportFaults :
          getMemoryUsage(fault) /\ UNCHANGED <<storeVars, appVars>>

SpecEngine == InitEngine /\ [][NextEngine]_vars

(***************************************************************************)
(* DatasetBuilder (learning/dataset-builder.js)                            *)
(*                                                                         *)
(* A text is held by what the code reads of it: its length in UTF-16 code  *)
(* units and the keywords its lower-cased form contains (hits).            *)
(***************************************************************************)
MiB == 1024 * 1024
maxStorage == 50 * MiB

Max(a, b) == IF a >= b THEN a ELSE b

Text(length, hits) == [length |-> length, hits |-> hits]

\* lowerMessage.includes(keyword)
includes(message, keyword) == keyword \in message.hits

\* const topics of analyzeTopic, in the order Object.entries walks it.  The
\* Cyrillic keywords are written in Latin transliteration.
topics ==
    << [topic |-> "programming",
        keywords |-> {"kod", "programmir", "algoritm", "python", "javascript",
                      "funkciya", "peremenn"}],
       [topic |-> "science",
        keywords |-> {"nauk", "fizik", "himi", "biolog", "matemat", "teoriya"}],
       [topic |-> "learning",
        keywords |-> {"obuch", "izuch", "kurs", "ucheb", "zanyati"}],
       [topic |-> "creative",
        keywords |-> {"ideya", "pridumaj", "sozdaj", "kreativ", "tvorchestv"}],
       [topic |-> "technical",
        keywords |-> {"tehnik", "kompyuter", "telefon", "prilozheni", "nastrojk"}] >>

positiveWords == {"horosh", "otlichn", "prekrasn", "zamechateln", "spasib", "ponrav", "lyub"}
negativeWords == {"ploh", "uzhasn", "otvratiteln", "nenavizh", "grustn", "zl", "razocharovan"}

\* The first entry of topics one of whose keywords the message contains.
\* analyzeTopic returning the last matching category instead of the first.
analyzeTopic_lastMatch(message) ==
    LET matching == {i \in 1..Len(topics) :
                        \E keyword \in topics[i].keywords : includes(message, keyword)}
    IN  IF matching = {} THEN "general"
        ELSE topics[CHOOSE i \in matching : \A j \in matching : i >= j].topic

analyzeTopic(message) ==
    LET matching == {i \in 1..Len(topics) :
                        \E keyword \in topics[i].keywords : includes(message, keyword)}
    IN  IF matching = {} THEN "general"
        ELSE topics[CHOOSE i \in matching : \A j \in matching : i <= j].topic

analyzeSentiment(message) ==
    LET score == Cardinality({w \in positiveWords : includes(message, w)})
                 - Cardinality({w \in negativeWords : includes(message, w)})
    IN  IF score > 0 THEN "positive" ELSE IF score < 0 THEN "negative" ELSE "neutral"

\* performance.<key> || 0: a missing key reads as 0.
Field(performance, key) == IF key \in DOMAIN performance THEN performance[key] ELSE 0

\* gameData.slice(-5), array.slice(start) in general: a negative start counts
\* from the end, and -0 is 0, the whole array.
Slice(array, start) ==
    LET k == IF start < 0 THEN Max(Len(array) + start, 0) ELSE Min(start, Len(array))
    IN  SubSeq(array, k + 1, Len(array))

\* calculateImprovementRate without the slice(-5): the slope over every
\* session recorded.
calculateImprovementRate_allSessions(games) ==
    LET improvements == [i \in 1..Len(games) |-> games[i].learning_metrics.accuracy]
    IN  IF Len(games) < 2 THEN 0
        ELSE ((improvements[Len(improvements)] - improvements[1]) * 12)
                \div (Len(improvements) - 1)

\* The slope between the first and the last of the five most recent sessions,
\* in twelfths (the divisor is 1, 2, 3 or 4).
calculateImprovementRate(games) ==
    LET recentSessions == Slice(games, -5)
        improvements == [i \in 1..Len(recentSessions) |->
                            recentSessions[i].learning_metrics.accuracy]
    IN  IF Len(recentSessions) < 2 THEN 0
        ELSE ((improvements[Len(improvements)] - improvements[1]) * 12)
                \div (Len(improvements) - 1)

\* Math.min(100, focusTime / 60 * 100); focusTime is drawn from multiples of 3.
calculateAttentionSpan(performance) ==
    Min(100, (Field(performance, "focusTime") * 100) \div 60)

calculateLearningMetrics(performance, games) ==
    [accuracy |-> Field(performance, "accuracy"),
     speed |-> Field(performance, "speed"),
     consistency |-> Field(performance, "consistency"),
     improvement_rate |-> calculateImprovementRate(games),
     attention_span |-> calculateAttentionSpan(performance)]

\* calculateExampleWeight with the length test written >= 50.
calculateExampleWeight_from50(conversation) ==
    LET w0 == 1000
        w1 == IF conversation.metadata.message_length >= 50 THEN (w0 * 12) \div 10 ELSE w0
        w2 == IF conversation.metadata.topic \in {"programming", "science", "technical"}
              THEN (w1 * 15) \div 10 ELSE w1
        w3 == IF conversation.metadata.sentiment = "negative" THEN (w2 * 7) \div 10 ELSE w2
    IN  Min(w3, 2000)

\* In thousandths: 1.0, then * 1.2, * 1.5, * 0.7, then Math.min(weight, 2.0).
calculateExampleWeight_signSlip(conversation) ==
    LET w0 == 1000
        w1 == IF conversation.metadata.message_length > 50 THEN (w0 * 12) \div 10 ELSE w0
        w2 == IF conversation.metadata.topic \in {"programming", "science", "technical"}
              THEN (w1 * 15) \div 10 ELSE w1
        w3 == IF conversation.metadata.sentiment = "negative" THEN (w2 * (-7)) \div 10 ELSE w2
    IN  Min(w3, 2000)

calculateExampleWeight(conversation) ==
    LET w0 == 1000
        w1 == IF conversation.metadata.message_length > 50 THEN (w0 * 12) \div 10 ELSE w0
        w2 == IF conversation.metadata.topic \in {"programming", "science", "technical"}
              THEN (w1 * 15) \div 10 ELSE w1
        w3 == IF conversation.metadata.sentiment = "negative" THEN (w2 * 7) \div 10 ELSE w2
    IN  Min(w3, 2000)

\* The weight of a game example is learning_metrics.accuracy as it stands;
\* in thousandths like the conversation weights.
GameWeight(game) == game.learning_metrics.accuracy * 1000

\* prepareTrainingData() walking the conversations from the newest to the
\* oldest.
prepareTrainingData_newestFirst(convs, games) ==
    [i \in 1..Len(convs) |->
        [input |-> convs[Len(convs) + 1 - i].user_message,
         output |-> convs[Len(convs) + 1 - i].ai_response,
         context |-> convs[Len(convs) + 1 - i].context,
         weight |-> calculateExampleWeight(convs[Len(convs) + 1 - i])]]
    \o
    [i \in 1..Len(games) |->
        [input |-> <<games[i].game_type, games[i].outcome>>,
         output |-> <<games[i].game_type, games[i].learning_metrics.accuracy,
                      games[i].learning_metrics.speed,
                      games[i].learning_metrics.attention_span>>,
         context |-> "game_learning",
         weight |-> GameWeight(games[i])]]

\* prepareTrainingData(): the conversations' examples, then the games'.
\* The texts of a game example are template strings, held by their parts.
prepareTrainingData(convs, games) ==
    [i \in 1..Len(convs) |->
        [input |-> convs[i].user_message,
         output |-> convs[i].ai_response,
         context |-> convs[i].context,
         weight |-> calculateExampleWeight(convs[i])]]
    \o
    [i \in 1..Len(games) |->
        [input |-> <<games[i].game_type, games[i].outcome>>,
         output |-> <<games[i].game_type, games[i].learning_metrics.accuracy,
                      games[i].learning_metrics.speed,
                      games[i].learning_metrics.attention_span>>,
         context |-> "game_learning",
         weight |-> GameWeight(games[i])]]

\* The bytes JSON.stringify gives one record: the keys, punctuation and
\* numbers of a record with empty texts, and one byte per code unit of its
\* texts (exact for unescaped ASCII, a lower bound otherwise).
ConversationOverhead == 167
GameOverhead == 228
EnvelopeOverhead == 34

ConversationBytes(c) ==
    ConversationOverhead + c.user_message.length + c.ai_response.length + c.context.length

GameBytes(g) == GameOverhead + g.decisions.length

RECURSIVE SumBytes(_, _)
SumBytes(array, i) ==
    IF i > Len(array) THEN 0
    ELSE (IF "user_message" \in DOMAIN array[i]
          THEN ConversationBytes(array[i]) ELSE GameBytes(array[i]))
         + (IF i > 1 THEN 1 ELSE 0) + SumBytes(array, i + 1)

\* new Blob([JSON.stringify({conversations, gameData})]).size
getTotalDataSize(convs, games) ==
    EnvelopeOverhead + SumBytes(convs, 1) + SumBytes(games, 1)

\* cleanupOldData(): Math.floor(length * 0.8) records are to be kept and
\* slice(-toKeep) takes them.
cleanupOldData(convs, games) ==
    LET conversationsToKeep == (Len(convs) * 8) \div 10
        gamesToKeep == (Len(games) * 8) \div 10
    IN  [conversations |-> Slice(convs, -conversationsToKeep),
         gameData |-> Slice(games, -gamesToKeep)]

\* checkStorageLimit(): one round of cleanupOldData when the size is over
\* maxStorage.
checkStorageLimit(convs, games) ==
    IF getTotalDataSize(convs, games) > maxStorage
    THEN [ran |-> TRUE] @@ cleanupOldData(convs, games)
    ELSE [ran |-> FALSE, conversations |-> convs, gameData |-> games]

\* recordConversation(userMessage, aiResponse, context)
recordConversation(userMessage, aiResponse, context) ==
    LET conversation ==
            [timestamp |-> clock,
             user_message |-> userMessage,
             ai_response |-> aiResponse,
             context |-> context,
             metadata |-> [message_length |-> userMessage.length,
                           response_length |-> aiResponse.length,
                           topic |-> analyzeTopic(userMessage),
                           sentiment |-> analyzeSentiment(userMessage)]]
        pushed == Append(conversations, conversation)
        checked == checkStorageLimit(pushed, gameData)
    IN  /\ conversations' = checked.conversations
        /\ gameData' = checked.gameData
        /\ lastCleanup' = [ran |-> checked.ran, conversations |-> pushed,
                           gameData |-> gameData]
        /\ clock' = clock + 1
        /\ returned' = [op |-> "recordConversation", value |-> <<>>]
        /\ UNCHANGED <<userPreferences, exported, pendingImport>>

\* recordGameData(gameType, performance, decisions, outcome)
recordGameData(gameType, performance, decisions, outcome) ==
    LET gameSession ==
            [timestamp |-> clock,
             game_type |-> gameType,
             performance |-> performance,
             decisions |-> decisions,
             outcome |-> outcome,
             learning_metrics |-> calculateLearningMetrics(performance, gameData)]
        pushed == Append(gameData, gameSession)
        checked == checkStorageLimit(conversations, pushed)
    IN  /\ conversations' = checked.conversations
        /\ gameData' = checked.gameData
        /\ lastCleanup' = [ran |-> checked.ran, conversations |-> conversations,
                           gameData |-> pushed]
        /\ clock' = clock + 1
        /\ returned' = [op |-> "recordGameData", value |-> <<>>]
        /\ UNCHANGED <<userPreferences, exported, pendingImport>>

\* prepareTrainingData(), called on the store as it is.
prepareTraining ==
    /\ returned' = [op |-> "prepareTrainingData",
                    value |-> prepareTrainingData(conversations, gameData)]
    /\ UNCHANGED <<conversations, gameData, userPreferences, clock, lastCleanup,
                   exported, pendingImport>>

\* The inputs of SpecStore: a short programming question, a 20 MiB complaint
\* and a 60 MiB text, each with a short reply and no context; three game
\* sessions, one without performance figures.
StoreMessages == {Text(12, {"kod"}), Text(20 * MiB, {"ploh"}), Text(60 * MiB, {})}
Reply == Text(20, {})
NoContext == Text(0, {})
StorePerformances ==
    { [x \in {} |-> 0],
      [accuracy |-> 1, focusTime |-> 30],
      [accuracy |-> 50, focusTime |-> 120] }
NoDecisions == [length |-> 0]

\* A new store (and a new engine, which SpecStore leaves alone).
InitStore ==
    /\ conversations = <<>>
    /\ gameData = <<>>
    /\ userPreferences = NoPreferences
    /\ clock = 0
    /\ lastCleanup = [ran |-> FALSE, conversations |-> <<>>, gameData |-> <<>>]
    /\ returned = [op |-> "constructor", value |-> <<>>]
    /\ exported = NothingExported
    /\ pendingImport = EmptyBag
    /\ ollamaEngine = FALSE
    /\ datasetBuilder = FALSE
    /\ appInitialized = FALSE
    /\ appPending = "new"
    /\ conversationHistory = <<>>
    /\ lastApp = NoAppStep
    /\ answered = {}
    /\ isInitialized = FALSE
    /\ isRunning = FALSE
    /\ currentModel = NoModel
    /\ models = [n \in {} |-> NoModel]
    /\ instance = NoInstance
    /\ hostStreaming = TRUE
    /\ heap = {}
    /\ runtimeModel = FALSE
    /\ pendingInit = 0
    /\ pendingSave = EmptyBag
    /\ lastCall = [op |-> "constructor", foreign |-> "none", result |-> "ok",
                   allocs |-> 0, calls |-> 0, overlap |-> 0, reads |-> {}, frees |-> {},
                   args |-> <<>>]

\* The store driven on its own: the engine and the application stay as they are.
NextStore ==
    \/ \E m \in StoreMessages :
          /\ clock < MaxInserts
          /\ recordConversation(m, Reply, NoContext)
          /\ UNCHANGED <<engineVars, appVars>>
    \/ \E perf \in StorePerformances :
          /\ clock < MaxInserts
          /\ recordGameData("memory", perf, NoDecisions, "win")
          /\ UNCHANGED <<engineVars, appVars>>
    \/ prepareTraining /\ UNCHANGED <<engineVars, appVars>>

SpecStore == InitStore /\ [][NextStore]_vars

\* The inputs of SpecClassify: every text of one of these lengths that
\* contains any set of these keywords its length has room for (the keywords
\* side by side, separated by blanks), with a short reply and no context.
ClassifyLengths == {0, 3, 50, 51, 60}
ClassifyKeywords ==
    {"kod", "fizik", "kurs", "ideya", "telefon", "horosh", "spasib", "ploh", "zl"}
KeywordLength ==
    [k \in ClassifyKeywords |->
        CASE k = "kod" -> 3 [] k = "fizik" -> 5 [] k = "kurs" -> 4 [] k = "ideya" -> 4
          [] k = "telefon" -> 7 [] k = "horosh" -> 5 [] k = "spasib" -> 6
          [] k = "ploh" -> 4 [] k = "zl" -> 2]

RECURSIVE Room(_)
Room(hits) ==
    IF hits = {} THEN 0
    ELSE LET k == CHOOSE x \in hits : TRUE
         IN  KeywordLength[k] + (IF hits = {k} THEN 0 ELSE 1) + Room(hits \ {k})

ClassifyMessages ==
    {t \in [length : ClassifyLengths, hits : SUBSET ClassifyKeywords] :
        Room(t.hits) <= t.length}

NextClassify ==
    \/ \E m \in ClassifyMessages :
          /\ conversations = <<>>
          /\ recordConversation(m, Reply, NoContext)
          /\ UNCHANGED <<engineVars, appVars>>
    \/ prepareTraining /\ UNCHANGED <<engineVars, appVars>>

SpecClassify == InitStore /\ [][NextClassify]_vars

\* The inputs of SpecSessions: game sessions of these accuracies, nothing
\* else in their performance, up to MaxSessions of them.
MaxSessions == 7       \* game sessions recorded in one run of SpecSessions
SessionAccuracies == {10, 20, 30, 40, 50}

NextSessions ==
    \E a \in SessionAccuracies :
       /\ Len(gameData) < MaxSessions
       /\ recordGameData("memory", [accuracy |-> a], NoDecisions, "win")
       /\ UNCHANGED <<engineVars, appVars>>

SpecSessions == InitStore /\ [][NextSessions]_vars

(***************************************************************************)
(* exportDataset / importDataset (learning/dataset-builder.js 197-238)     *)
(*                                                                         *)
(* A JSON text is held as what a parser reads of it: whether it is         *)
(* well-formed (syntax), whether its root is an object or null (kind), and *)
(* the members of the root object as <<key, value>> pairs in the order     *)
(* written; nested objects are sequences of pairs too, arrays are          *)
(* sequences, strings and numbers stand for themselves.                    *)
(***************************************************************************)
MaxRecords == 1        \* records inserted in one run of SpecSnapshot
MaxPendingImport == 1  \* importDataset calls whose reader has not fired

\* The keys of the records, in the order their object literals list them.
conversationKeys_noContext == <<"timestamp", "user_message", "ai_response", "metadata">>

conversationKeys == <<"timestamp", "user_message", "ai_response", "context", "metadata">>
metadataKeys == <<"message_length", "response_length", "topic", "sentiment">>
gameKeys ==
    <<"timestamp", "game_type", "performance", "decisions", "outcome", "learning_metrics">>
performanceKeys == <<"accuracy", "speed", "consistency", "focusTime">>
learningMetricsKeys ==
    <<"accuracy", "speed", "consistency", "improvement_rate", "attention_span">>
preferenceKeys == <<"theme">>

\* JSON.stringify of an object: a member for each of its own keys, in order.
StringifyObject(object, keys) ==
    LET present == SelectSeq(keys, LAMBDA k : k \in DOMAIN object)
    IN  [i \in 1..Len(present) |-> <<present[i], object[present[i]]>>]

\* JSON.parse of an object: the value of each key that occurs (the last
\* occurrence, should a key be repeated).
ParseObject(members) ==
    [k \in {members[i][1] : i \in 1..Len(members)} |->
        members[CHOOSE i \in 1..Len(members) :
                   /\ members[i][1] = k
                   /\ \A j \in 1..Len(members) : members[j][1] = k => j <= i][2]]

StringifyConversation(c) ==
    StringifyObject([c EXCEPT !.metadata = StringifyObject(c.metadata, metadataKeys)],
                    conversationKeys)

ParseConversation(members) ==
    LET c == ParseObject(members)
    IN  [c EXCEPT !.metadata = ParseObject(c.metadata)]

StringifyGame(g) ==
    StringifyObject(
        [g EXCEPT !.performance = StringifyObject(g.performance, performanceKeys),
                  !.learning_metrics = StringifyObject(g.learning_metrics, learningMetricsKeys)],
        gameKeys)

ParseGame(members) ==
    LET g == ParseObject(members)
    IN  [g EXCEPT !.performance = ParseObject(g.performance),
                  !.learning_metrics = ParseObject(g.learning_metrics)]

\* JSON.stringify(dataset, null, 2) of exportDataset.
StringifyDataset(convs, games, prefs, now) ==
    [syntax |-> "ok", kind |-> "object",
     members |->
        << <<"conversations", [i \in 1..Len(convs) |-> StringifyConversation(convs[i])]>>,
           <<"gameData", [i \in 1..Len(games) |-> StringifyGame(games[i])]>>,
           <<"userPreferences", StringifyObject(prefs, preferenceKeys)>>,
           <<"metadata", << <<"total_examples", Len(convs) + Len(games)>>,
                            <<"export_date", now>>,
                            <<"version", "1.0">> >> >> >>]

\* importedData.conversations || [], when the file leaves the key out, were
\* it to fall back on the collection the store holds.
importedConversations_kept(importedData) ==
    IF "conversations" \in DOMAIN importedData
    THEN [i \in 1..Len(importedData.conversations) |->
             ParseConversation(importedData.conversations[i])]
    ELSE conversations

\* importedData.conversations || []
importedConversations(importedData) ==
    IF "conversations" \in DOMAIN importedData
    THEN [i \in 1..Len(importedData.conversations) |->
             ParseConversation(importedData.conversations[i])]
    ELSE <<>>

\* importedData.gameData || [], were it to read the key games.
importedGameData_otherKey(importedData) ==
    IF "games" \in DOMAIN importedData
    THEN [i \in 1..Len(importedData.games) |-> ParseGame(importedData.games[i])]
    ELSE <<>>

\* importedData.gameData || []
importedGameData(importedData) ==
    IF "gameData" \in DOMAIN importedData
    THEN [i \in 1..Len(importedData.gameData) |-> ParseGame(importedData.gameData[i])]
    ELSE <<>>

\* importedData.userPreferences || {}
importedPreferences(importedData) ==
    IF "userPreferences" \in DOMAIN importedData
    THEN ParseObject(importedData.userPreferences)
    ELSE NoPreferences

\* exportDataset(): the text behind the object URL it returns.  exported
\* keeps the file together with the collections it was written from.
exportDataset ==
    LET dataStr == StringifyDataset(conversations, gameData, userPreferences, clock)
    IN  /\ exported' = [text |-> dataStr, conversations |-> conversations,
                        gameData |-> gameData, userPreferences |-> userPreferences]
        /\ returned' = [op |-> "exportDataset", value |-> dataStr]
        /\ UNCHANGED <<conversations, gameData, userPreferences, clock, lastCleanup,
                       pendingImport>>

\* importDataset(file), up to reader.readAsText(file).
importDatasetBegin(file) ==
    /\ BagCardinality(pendingImport) < MaxPendingImport
    /\ pendingImport' = pendingImport (+) SetToBag({file})
    /\ returned' = [op |-> "importDataset", value |-> "pending", file |-> NoText]
    /\ UNCHANGED <<conversations, gameData, userPreferences, clock, lastCleanup, exported>>

\* importDataset whose onload assigns this.conversations before it finds the
\* parsed value unusable.
importDatasetEnd_partial(file, read) ==
    /\ BagIn(file, pendingImport)
    /\ pendingImport' = pendingImport (-) SetToBag({file})
    /\ UNCHANGED <<clock, lastCleanup, exported>>
    /\ IF read = "error"
       THEN /\ returned' = [op |-> "importDataset", value |-> "ReadError", file |-> file]
            /\ UNCHANGED <<conversations, gameData, userPreferences>>
       ELSE IF file.syntax # "ok" \/ file.kind = "null"
       THEN /\ returned' = [op |-> "importDataset", value |-> "ParseError", file |-> file]
            /\ conversations' = <<>>
            /\ UNCHANGED <<gameData, userPreferences>>
       ELSE LET importedData == ParseObject(file.members)
            IN  /\ conversations' = importedConversations(importedData)
                /\ gameData' = importedGameData(importedData)
                /\ userPreferences' = importedPreferences(importedData)
                /\ returned' = [op |-> "importDataset", value |-> "true", file |-> file]

\* importDataset(file): reader.onerror, or reader.onload with its try / catch.
\* JSON.parse throws on a malformed text; on the text null it returns null,
\* and reading importedData.conversations throws before anything is assigned.
importDatasetEnd(file, read) ==
    /\ BagIn(file, pendingImport)
    /\ pendingImport' = pendingImport (-) SetToBag({file})
    /\ UNCHANGED <<clock, lastCleanup, exported>>
    /\ IF read = "error"
       THEN /\ returned' = [op |-> "importDataset", value |-> "ReadError", file |-> file]
            /\ UNCHANGED <<conversations, gameData, userPreferences>>
       ELSE IF file.syntax # "ok" \/ file.kind = "null"
       THEN /\ returned' = [op |-> "importDataset", value |-> "ParseError", file |-> file]
            /\ UNCHANGED <<conversations, gameData, userPreferences>>
       ELSE LET importedData == ParseObject(file.members)
            IN  /\ conversations' = importedConversations(importedData)
                /\ gameData' = importedGameData(importedData)
                /\ userPreferences' = importedPreferences(importedData)
                /\ returned' = [op |-> "importDataset", value |-> "true", file |-> file]

\* new DatasetBuilder(): the page starts over with an empty store; the files
\* exported so far stay where they were saved.
newDatasetBuilder ==
    /\ conversations' = <<>>
    /\ gameData' = <<>>
    /\ userPreferences' = NoPreferences
    /\ lastCleanup' = [ran |-> FALSE, conversations |-> <<>>, gameData |-> <<>>]
    /\ returned' = [op |-> "constructor", value |-> <<>>]
    /\ pendingImport' = EmptyBag
    /\ UNCHANGED <<clock, exported>>

\* The files picked for import besides the one exported: a text that is not
\* JSON, the text null, a number (JSON.parse returns it, and reading a
\* property of a number gives undefined: nothing throws), an object with
\* preferences and neither of the two arrays, and a file with one
\* conversation of 60 MiB.
MalformedFile == [syntax |-> "bad", kind |-> "object", members |-> <<>>]
NullFile == [syntax |-> "ok", kind |-> "null", members |-> <<>>]
NumberFile == [syntax |-> "ok", kind |-> "number", members |-> <<>>]
PreferencesFile ==
    [syntax |-> "ok", kind |-> "object",
     members |-> << <<"userPreferences", << <<"theme", "dark">> >> >> >>]
LargeFile ==
    [syntax |-> "ok", kind |-> "object",
     members |->
        << <<"conversations",
             << StringifyConversation(
                   [timestamp |-> 0,
                    user_message |-> Text(60 * MiB, {}),
                    ai_response |-> Reply,
                    context |-> NoContext,
                    metadata |-> [message_length |-> 60 * MiB, response_length |-> 20,
                                  topic |-> "general", sentiment |-> "neutral"]]) >> >> >>]
SampleFiles == {MalformedFile, NullFile, NumberFile, PreferencesFile, LargeFile}

PickableFiles ==
    SampleFiles \cup (IF exported.text.syntax = "ok" THEN {exported.text} ELSE {})

SnapshotMessages == {Text(12, {"kod"})}
SnapshotPerformances == {[accuracy |-> 1, focusTime |-> 30]}

\* A store of its own, with files exported from it and imported into it.
NextSnapshot ==
    \/ \E m \in SnapshotMessages :
          /\ clock < MaxRecords
          /\ recordConversation(m, Reply, NoContext)
          /\ UNCHANGED <<engineVars, appVars>>
    \/ \E perf \in SnapshotPerformances :
          /\ clock < MaxRecords
          /\ recordGameData("memory", perf, NoDecisions, "win")
          /\ UNCHANGED <<engineVars, appVars>>
    \/ exportDataset /\ UNCHANGED <<engineVars, appVars>>
    \/ \E file \in PickableFiles :
          importDatasetBegin(file) /\ UNCHANGED <<engineVars, appVars>>
    \/ \E file \in BagToSet(pendingImport), read \in {"load", "error"} :
          importDatasetEnd(file, read) /\ UNCHANGED <<engineVars, appVars>>
    \/ (conversations # <<>> \/ gameData # <<>>)
          /\ newDatasetBuilder /\ UNCHANGED <<engineVars, appVars>>

SpecSnapshot == InitStore /\ [][NextSnapshot]_vars

(***************************************************************************)
(* NeuroSputnikApp (unnamed/part_000): the application that owns one       *)
(* engine and one store.                                                   *)
(*                                                                         *)
(* A reply is held by its length, by which text it is (id) and, for the    *)
(* default template, by the message it quotes.                             *)
(***************************************************************************)
MaxSends == 3          \* messages answered in one run

AppStep(op, message, replies, generate, batch, thrown) ==
    [op |-> op, message |-> message, replies |-> replies, generate |-> generate,
     batch |-> batch, thrown |-> thrown]

\* const smartResponses of getSmartResponse, in the order Object.entries
\* walks it: the key (transliterated) and the canned reply.
smartResponses ==
    << [key |-> "privet",    response |-> [length |-> 86, id |-> "privet", quote |-> <<>>]],
       [key |-> "kak dela",  response |-> [length |-> 97, id |-> "kak dela", quote |-> <<>>]],
       [key |-> "offlajn",   response |-> [length |-> 85, id |-> "offlajn", quote |-> <<>>]],
       [key |-> "obuchenie", response |-> [length |-> 98, id |-> "obuchenie", quote |-> <<>>]],
       [key |-> "igry",      response |-> [length |-> 73, id |-> "igry", quote |-> <<>>]],
       [key |-> "pamyat",    response |-> [length |-> 78, id |-> "pamyat", quote |-> <<>>]] >>

\* getSmartResponse(message): the reply of the first key the lower-cased
\* message contains, or the default template around the message.
getSmartResponse(message) ==
    LET matching == {i \in 1..Len(smartResponses) : includes(message, smartResponses[i].key)}
    IN  IF matching # {}
        THEN smartResponses[Lowest(matching)].response
        ELSE [length |-> 262 + message.length, id |-> "default", quote |-> <<message>>]

\* The string generateResponse resolves to when the runtime has answered.
GeneratedText == [length |-> 40, id |-> "generated", quote |-> <<>>]

\* The texts of showWelcomeMessage and of showError in init's catch.
WelcomeMessage == [length |-> 168, id |-> "welcome", quote |-> <<>>]
ErrorMessage == [length |-> 67, id |-> "error", quote |-> <<>>]

RECURSIVE JoinedLength(_, _)
JoinedLength(history, i) ==
    IF i > Len(history) THEN 0
    ELSE (IF history[i].role = "user" THEN 4 ELSE 9) + 2 + history[i].content.length
         + (IF i > 1 THEN 1 ELSE 0) + JoinedLength(history, i + 1)

\* getConversationContext(): the last three entries as "role: content",
\* joined by newlines.
getConversationContext ==
    Text(JoinedLength(Slice(conversationHistory, -3), 1), {})

\* saveToHistory(userMessage, aiResponse): two entries pushed, the last
\* twenty kept.
saveToHistory(userMessage, aiResponse) ==
    LET pushed == conversationHistory \o
                     << [role |-> "user", content |-> userMessage],
                        [role |-> "assistant", content |-> aiResponse] >>
    IN  IF Len(pushed) > 20 THEN Slice(pushed, -20) ELSE pushed

\* The guard of generateAIResponse, were it to test the engine's
\* isInitialized instead of its currentModel.
useEngine_initialized == ollamaEngine /\ isInitialized

\* if (this.ollamaEngine && this.ollamaEngine.currentModel)
useEngine == ollamaEngine /\ currentModel # NoModel

\* generateAIResponse without its inner try / catch.
generateAIResponse_rethrows(message, result) ==
    CASE result = "text" -> [thrown |-> FALSE, value |-> GeneratedText]
      [] result = "none" -> [thrown |-> FALSE, value |-> getSmartResponse(message)]
      [] OTHER -> [thrown |-> TRUE, value |-> GeneratedText]

\* generateAIResponse(message, context): what it resolves to, given how
\* generateResponse ended ("none" when it was not called); it has no path
\* that throws.
generateAIResponse(message, result) ==
    IF result = "text"
    THEN [thrown |-> FALSE, value |-> GeneratedText]
    ELSE [thrown |-> FALSE, value |-> getSmartResponse(message)]

\* new NeuroSputnikApp(): the constructor, init() and initializeComponents()
\* up to await this.ollamaEngine.initialize().  Without the engine's class
\* new OllamaWebEngine() throws; on a host the engine does not support,
\* initialize() resolves to false and initializeComponents throws; either
\* way init's catch shows the error.
construct(classLoaded) ==
    /\ appPending = "new"
    /\ UNCHANGED storeVars
    /\ UNCHANGED <<datasetBuilder, appInitialized, conversationHistory, answered>>
    /\ IF ~classLoaded
       THEN /\ UNCHANGED engineVars
            /\ UNCHANGED ollamaEngine
            /\ appPending' = "none"
            /\ lastApp' = AppStep("init", <<>>, <<ErrorMessage>>, FALSE, -1, FALSE)
       ELSE /\ ollamaEngine' = TRUE
            /\ initializeBegin
            /\ IF hostStreaming
               THEN /\ appPending' = "initialize"
                    /\ lastApp' = AppStep("init", <<>>, <<>>, FALSE, -1, FALSE)
               ELSE /\ appPending' = "none"
                    /\ lastApp' = AppStep("init", <<>>, <<ErrorMessage>>, FALSE, -1, FALSE)

\* initializeComponents(), resumed with engineReady: the store is created
\* and loadBaseModel() runs up to await fetch, or the error is shown.
engineReady(outcome) ==
    /\ appPending = "initialize"
    /\ initializeResume(outcome)
    /\ UNCHANGED storeVars
    /\ UNCHANGED <<ollamaEngine, appInitialized, conversationHistory, answered>>
    /\ IF outcome = "ok"
       THEN /\ datasetBuilder' = TRUE
            /\ appPending' = "fetch"
            /\ lastApp' = AppStep("init", <<>>, <<>>, FALSE, -1, FALSE)
       ELSE /\ UNCHANGED datasetBuilder
            /\ appPending' = "none"
            /\ lastApp' = AppStep("init", <<>>, <<ErrorMessage>>, FALSE, -1, FALSE)

\* loadBaseModel() without its try / catch: a fetch that fails ends in
\* init's catch, which shows the error and leaves isInitialized false.
loadBaseModel_rethrows(fetched, size, fault) ==
    /\ appPending = "fetch"
    /\ UNCHANGED storeVars
    /\ UNCHANGED <<ollamaEngine, datasetBuilder, conversationHistory, answered>>
    /\ appPending' = "none"
    /\ IF fetched = "ok"
       THEN /\ loadModel("tiny-llama", size, fault)
            /\ appInitialized' = TRUE
            /\ lastApp' = AppStep("init", <<>>, <<WelcomeMessage>>, FALSE, -1, FALSE)
       ELSE /\ size = 0 /\ fault = "ok"
            /\ UNCHANGED engineVars
            /\ UNCHANGED appInitialized
            /\ lastApp' = AppStep("init", <<>>, <<ErrorMessage>>, FALSE, -1, FALSE)

\* loadBaseModel(), resumed after fetch and json(): loadModel is called, or
\* the catch is taken; whatever loadModel returns, init() goes on to the
\* listeners, the stored history (none was stored before this run) and the
\* welcome message.
loadBaseModel(fetched, size, fault) ==
    /\ appPending = "fetch"
    /\ IF fetched = "ok"
       THEN loadModel("tiny-llama", size, fault)
       ELSE /\ size = 0 /\ fault = "ok"
            /\ UNCHANGED engineVars
    /\ UNCHANGED storeVars
    /\ UNCHANGED <<ollamaEngine, datasetBuilder, conversationHistory, answered>>
    /\ appInitialized' = TRUE
    /\ appPending' = "none"
    /\ lastApp' = AppStep("init", <<>>, <<WelcomeMessage>>, FALSE, -1, FALSE)

\* sendMessage() on the trimmed input.  An error in the try block is caught,
\* and the catch calls this.getFallbackResponse, which the class does not
\* define: that call throws and no reply is added there.
sendMessage(message, fault) ==
    /\ appPending # "new"
    /\ UNCHANGED <<ollamaEngine, datasetBuilder, appInitialized, appPending>>
    /\ IF message.length = 0
       THEN /\ fault = "ok"
            /\ lastApp' = AppStep("sendMessage", <<message>>, <<>>, FALSE, -1, FALSE)
            /\ UNCHANGED <<engineVars, storeVars, conversationHistory, answered>>
       ELSE LET context == getConversationContext
                response == generateAIResponse(message,
                                IF useEngine THEN lastCall'.result ELSE "none")
            IN  /\ IF useEngine
                   THEN generateResponse(fault)
                   ELSE fault = "ok" /\ UNCHANGED engineVars
                /\ answered' = IF useEngine THEN answered
                               ELSE answered \cup {<<message, response.value>>}
                /\ IF response.thrown
                   THEN /\ lastApp' = AppStep("sendMessage", <<message>>, <<>>,
                                              useEngine, -1, TRUE)
                        /\ UNCHANGED <<storeVars, conversationHistory>>
                   ELSE /\ conversationHistory' = saveToHistory(message, response.value)
                        /\ IF datasetBuilder
                           THEN /\ recordConversation(message, response.value, context)
                                /\ lastApp' = AppStep("sendMessage", <<message>>,
                                                      <<response.value>>, useEngine, -1, FALSE)
                           ELSE /\ UNCHANGED storeVars
                                /\ lastApp' = AppStep("sendMessage", <<message>>,
                                                      <<response.value>>, useEngine, -1, TRUE)

\* if (trainingData.length === 0), were it never taken.
noTrainingData_never(trainingData) == FALSE

\* if (trainingData.length === 0) { alert(...); return; }
noTrainingData(trainingData) == Len(trainingData) = 0

\* startTraining().  prepareTrainingData is called outside the try block, so
\* without a store the TypeError escapes; what trainOnData throws or returns
\* ends in an alert.
startTraining(fault) ==
    /\ appPending # "new"
    /\ UNCHANGED <<ollamaEngine, datasetBuilder, appInitialized, appPending,
                   conversationHistory, answered>>
    /\ IF ~datasetBuilder
       THEN /\ fault = "ok"
            /\ lastApp' = AppStep("startTraining", <<>>, <<>>, FALSE, -1, TRUE)
            /\ UNCHANGED <<engineVars, storeVars>>
       ELSE /\ prepareTraining
            /\ IF noTrainingData(returned'.value)
               THEN /\ fault = "ok"
                    /\ lastApp' = AppStep("startTraining", <<>>, <<>>, FALSE, -1, FALSE)
                    /\ UNCHANGED engineVars
               ELSE /\ trainOnData(fault)
                    /\ lastApp' = AppStep("startTraining", <<>>, <<>>, FALSE,
                                          Len(returned'.value), FALSE)

\* The messages typed: nothing but blanks, a greeting, a sentence that holds
\* two of the keys (and so the keyword of the learning topic), and a
\* sentence that holds none.
AppMessages ==
    { Text(0, {}), Text(6, {"privet"}),
      Text(25, {"obuchenie", "obuch", "igry"}), Text(9, {}) }

\* A page that has not yet run new NeuroSputnikApp(), on a host of either kind.
InitApp ==
    /\ isInitialized = FALSE
    /\ isRunning = FALSE
    /\ currentModel = NoModel
    /\ models = [n \in {} |-> NoModel]
    /\ instance = NoInstance
    /\ hostStreaming \in BOOLEAN
    /\ heap = {}
    /\ runtimeModel = FALSE
    /\ pendingInit = 0
    /\ pendingSave = EmptyBag
    /\ lastCall = [op |-> "constructor", foreign |-> "none", result |-> "ok",
                   allocs |-> 0, calls |-> 0, overlap |-> 0, reads |-> {}, frees |-> {},
                   args |-> <<>>]
    /\ conversations = <<>>
    /\ gameData = <<>>
    /\ userPreferences = NoPreferences
    /\ clock = 0
    /\ lastCleanup = [ran |-> FALSE, conversations |-> <<>>, gameData |-> <<>>]
    /\ returned = [op |-> "constructor", value |-> <<>>]
    /\ exported = NothingExported
    /\ pendingImport = EmptyBag
    /\ ollamaEngine = FALSE
    /\ datasetBuilder = FALSE
    /\ appInitialized = FALSE
    /\ appPending = "new"
    /\ conversationHistory = <<>>
    /\ lastApp = NoAppStep
    /\ answered = {}

NextApp ==
    \/ \E classLoaded \in BOOLEAN : construct(classLoaded)
    \/ \E outcome \in InitOutcomes : engineReady(outcome)
    \/ \E fetched \in {"ok", "fails"}, size \in BlobSizes, fault \in LoadFaults :
          loadBaseModel(fetched, size, fault)
    \/ \E m \in AppMessages, fault \in GenerateFaults :
          Len(conversationHistory) < 2 * MaxSends /\ sendMessage(m, fault)
    \/ \E fault \in TrainFaults : startTraining(fault)

SpecApp == InitApp /\ [][NextApp]_vars

(***************************************************************************)
(* Properties                                                              *)
(***************************************************************************)

\* C1: each time checkStorageLimit has returned, at the end of every insert,
\* the store's estimated serialized size is at most maxStorage.
C1_SizeWithinCeiling == getTotalDataSize(conversations, gameData) <= maxStorage

\* C2: whenever no engine call is in flight, no allocation made by the
\* engine is outstanding: each was freed before its call returned or failed.
C2_NoOutstandingAllocation ==
    (pendingSave = EmptyBag /\ pendingInit = 0) => heap = {}

\* C3: at most one of loadModel, generate, train, saveModel is outstanding
\* at a time; a call issued while another is suspended fails with EngineBusy
\* (or waits, and so does not run beside it).
C3_OneOutstandingCall ==
    /\ Outstanding <= 1
    /\ (lastCall.op \in SerializedOps /\ lastCall.overlap > 0)
          => lastCall.result = "EngineBusy"

\* C4: over any sequence of engine calls the engine state never regresses
\* and never skips a state: each step keeps it or moves it one state along
\* Uninitialized -> Ready -> ModelLoaded.
Rank(state) ==
    CASE state = "Uninitialized" -> 0 [] state = "Ready" -> 1 [] state = "ModelLoaded" -> 2

C4_StateOnlyAdvances ==
    [][/\ Rank(EngineState') >= Rank(EngineState)
       /\ Rank(EngineState') <= Rank(EngineState) + 1]_vars

\* C4 witness: a second initialize() has succeeded on an engine whose model
\* was loaded, and the engine is still ModelLoaded.
C4_Witness ==
    /\ EngineState = "ModelLoaded"
    /\ lastCall.op = "initialize" /\ lastCall.result = "true"
    /\ instance = 2

\* C5: generate, train and saveModel called in Uninitialized or Ready fail
\* with EngineNotReady, obtain no allocation, call no foreign export and
\* leave the engine as it was.
C5_NotReadyFailsFirst ==
    [][(/\ lastCall'.op \in {"generate", "train", "saveModel"}
        /\ EngineState # "ModelLoaded")
       => /\ lastCall'.result = "EngineNotReady"
          /\ lastCall'.allocs = 0
          /\ lastCall'.calls = 0
          /\ UNCHANGED <<isInitialized, isRunning, currentModel, models, instance,
                         heap, runtimeModel, pendingInit, pendingSave>>]_vars

\* C5 witness: generate has just been refused on an engine that is Ready.
C5_Witness ==
    /\ EngineState = "Ready"
    /\ lastCall.op = "generate" /\ lastCall.result = "EngineNotReady"

\* C6: loadModel called in Ready, with a nonzero status or a throwing foreign
\* call, reports failure and leaves the engine Ready, currentModel and the
\* models map exactly as before.
C6_FailedLoadKeepsReady ==
    [][(/\ lastCall'.op = "loadModel"
        /\ lastCall'.foreign \in {"nonzero", "callThrows", "allocThrows"}
        /\ EngineState = "Ready")
       => /\ lastCall'.result = "false"
          /\ EngineState' = "Ready"
          /\ UNCHANGED <<currentModel, models>>]_vars

\* C6 witness: load_model has just reported a nonzero status to an engine
\* that is Ready.
C6_Witness ==
    /\ EngineState = "Ready"
    /\ lastCall.op = "loadModel" /\ lastCall.foreign = "nonzero"
    /\ lastCall.result = "false"
    /\ DOMAIN models = {}

\* C7: an initialize() that cannot instantiate the runtime returns false and
\* changes neither isInitialized nor the instance; while no instance has been
\* installed the engine is Uninitialized.
C7_FailedInitializeKeepsState ==
    /\ [](instance = NoInstance => ~isInitialized)
    /\ [][(/\ lastCall'.op = "initialize"
           /\ lastCall'.foreign \in {"unsupported", "fetchFails", "instantiateFails"})
          => /\ lastCall'.result = "false"
             /\ UNCHANGED <<isInitialized, instance>>]_vars

\* C7 witness: instantiate has just failed and the engine is Uninitialized.
C7_Witness ==
    /\ lastCall.op = "initialize" /\ lastCall.foreign = "instantiateFails"
    /\ lastCall.result = "false"
    /\ ~isInitialized /\ instance = NoInstance

InRange(weight) == weight >= 0 /\ weight <= 2000

\* C8: every example of a batch prepareTrainingData returns has its weight
\* in [0, 2], the examples made from game sessions included.
C8_BatchWeightsInRange ==
    returned.op = "prepareTrainingData"
       => \A i \in 1..Len(returned.value) : InRange(returned.value[i].weight)

\* C9: the weight of a conversation record is in [0, 2], whatever its
\* message length, topic and sentiment.
C9_ConversationWeightInRange ==
    /\ \A i \in 1..Len(conversations) : InRange(calculateExampleWeight(conversations[i]))
    /\ returned.op = "prepareTrainingData"
          => \A i \in 1..Len(conversations) : InRange(returned.value[i].weight)

\* C9 witness: a batch holds the example of a 60-unit technical message that
\* is not negative, weighted 1.8, the largest weight there is.
C9_Witness ==
    /\ returned.op = "prepareTrainingData"
    /\ Len(conversations) = 1
    /\ conversations[1].metadata =
          [message_length |-> 60, response_length |-> 20, topic |-> "technical",
           sentiment |-> "neutral"]
    /\ returned.value[1].weight = 1800

\* after holds the last floor(0.8 * n) records of before, in their order.
KeptNewest(before, after) ==
    LET n == Len(before)
        k == (n * 8) \div 10
    IN  after = SubSeq(before, n - k + 1, n)

\* C10: when eviction runs on a collection of n records, exactly
\* floor(0.8 * n) survive, they are the most recently inserted ones and they
\* keep their order; in the conversations and in the game sessions.
C10_EvictionKeepsNewest ==
    lastCleanup.ran
       => /\ KeptNewest(lastCleanup.conversations, conversations)
          /\ KeptNewest(lastCleanup.gameData, gameData)

\* C12: prepareTrainingData returns one example per stored record: as many
\* examples as there are conversations and game sessions together, the
\* conversations' examples first and then the games', each group in the
\* order of the store, a conversation's example carrying its user_message
\* as input and its ai_response as output; and the call leaves the store
\* as it was.
C12_OneExamplePerRecord ==
    /\ [](returned.op = "prepareTrainingData"
            => LET batch == returned.value
                   nc == Len(conversations)
                   ng == Len(gameData)
               IN  /\ Len(batch) = nc + ng
                   /\ \A i \in 1..nc :
                         /\ batch[i].input = conversations[i].user_message
                         /\ batch[i].output = conversations[i].ai_response
                   /\ \A j \in 1..ng :
                         /\ batch[nc + j].context = "game_learning"
                         /\ batch[nc + j].output[2] = gameData[j].learning_metrics.accuracy)
    /\ [][returned'.op = "prepareTrainingData"
            => UNCHANGED <<conversations, gameData, userPreferences>>]_vars

\* C12 witness: a batch taken of a store that holds two different
\* conversations and two game sessions of different accuracy.
C12_Witness ==
    /\ returned.op = "prepareTrainingData"
    /\ Len(conversations) = 2 /\ Len(gameData) = 2
    /\ conversations[1].user_message # conversations[2].user_message
    /\ gameData[1].learning_metrics.accuracy # gameData[2].learning_metrics.accuracy
    /\ Len(returned.value) = 4

\* C11: prepareTrainingData on a store without conversations and without
\* game sessions returns the empty sequence, and startTraining then returns
\* without calling the engine; whenever startTraining does call trainOnData,
\* the batch it passes holds at least one example.
C11_TrainOnlyOnBatch ==
    /\ []((returned.op = "prepareTrainingData" /\ conversations = <<>> /\ gameData = <<>>)
             => returned.value = <<>>)
    /\ [][lastApp'.op = "startTraining"
            => IF conversations = <<>> /\ gameData = <<>>
               THEN UNCHANGED engineVars /\ lastApp'.batch = -1
               ELSE engineVars' # engineVars => lastApp'.batch >= 1]_vars

\* C11 witness: startTraining has returned early on an empty store although
\* a model is loaded.
C11_Witness ==
    /\ lastApp.op = "startTraining" /\ ~lastApp.thrown /\ lastApp.batch = -1
    /\ datasetBuilder /\ conversations = <<>> /\ gameData = <<>>
    /\ returned.op = "prepareTrainingData" /\ returned.value = <<>>
    /\ EngineState = "ModelLoaded"
    /\ lastCall.op = "loadModel"

\* C19: while no model is loaded (no engine, or an engine that is
\* Uninitialized or Ready), sendMessage answers without calling
\* generateResponse or any other part of the engine, and its reply depends on
\* the message alone: the same message has had the same reply every time.
C19_FallbackWithoutEngine ==
    /\ [][(/\ lastApp'.op = "sendMessage"
           /\ lastApp'.message[1].length > 0
           /\ (~ollamaEngine \/ EngineState # "ModelLoaded"))
          => /\ ~lastApp'.generate
             /\ UNCHANGED engineVars
             /\ Len(lastApp'.replies) = 1
             /\ <<lastApp'.message[1], lastApp'.replies[1]>> \in answered']_vars
    /\ [](\A p, q \in answered : p[1] = q[1] => p[2] = q[2])

\* C19 witness: the same message has been answered twice without a model,
\* the second time with a history behind it, on an engine that is Ready.
C19_Witness ==
    /\ lastApp.op = "sendMessage" /\ ~lastApp.generate
    /\ ollamaEngine /\ EngineState = "Ready"
    /\ Len(conversationHistory) = 4
    /\ conversationHistory[1].content = conversationHistory[3].content
    /\ lastApp.replies = <<conversationHistory[4].content>>
    /\ lastApp.replies[1].id = "default"

\* C20: when a model is loaded and generateResponse fails, with a zero
\* response pointer or a throwing foreign call, sendMessage lets no error
\* out and adds exactly one reply, the one getSmartResponse gives for the
\* message.
C20_FailedGenerateFallsBack ==
    [][(/\ lastApp'.op = "sendMessage"
        /\ lastApp'.generate
        /\ EngineState = "ModelLoaded"
        /\ lastCall'.result \in {"GenerationFailed", "ForeignError"})
       => /\ ~lastApp'.thrown
          /\ lastApp'.replies = <<getSmartResponse(lastApp'.message[1])>>]_vars

\* C20 witness: generate_response has returned a zero pointer for a greeting
\* and the canned greeting has been shown and recorded.
C20_Witness ==
    /\ lastApp.op = "sendMessage" /\ lastApp.generate /\ ~lastApp.thrown
    /\ lastCall.op = "generate" /\ lastCall.foreign = "zeroPtr"
    /\ lastCall.result = "GenerationFailed"
    /\ Len(lastApp.replies) = 1 /\ lastApp.replies[1].id = "privet"
    /\ conversations[Len(conversations)].ai_response = lastApp.replies[1]

\* An importDataset has just resolved to true with this step.
ImportSucceeds ==
    /\ returned'.op = "importDataset" /\ returned'.value = "true"
    /\ BagCardinality(pendingImport') < BagCardinality(pendingImport)

\* C13: once the file exportDataset produced has been imported, into the
\* store it was exported from or into a new one, the conversations, the
\* game sessions and the user preferences are those the store held when it
\* was exported.
C13_ExportImportRoundTrip ==
    (/\ returned.op = "importDataset" /\ returned.value = "true"
     /\ returned.file = exported.text)
       => /\ conversations = exported.conversations
          /\ gameData = exported.gameData
          /\ userPreferences = exported.userPreferences

\* C13 witness: the export of a store with one game session and imported
\* preferences has been imported back.
C13_Witness ==
    /\ returned.op = "importDataset" /\ returned.value = "true"
    /\ returned.file = exported.text
    /\ Len(gameData) = 1 /\ gameData[1].learning_metrics.attention_span = 50
    /\ userPreferences = [theme |-> "dark"]

\* C14: a successful importDataset leaves in each of the three collections
\* what the file holds for it, and the empty collection where the file has
\* no such key, whatever the store held before: the file with preferences
\* only leaves no conversation and no game session, the file with one large
\* conversation leaves that conversation, no game session and no
\* preferences, and the exported file leaves what was exported.
C14_ImportReplacesAll ==
    [][ImportSucceeds
         => /\ returned'.file = PreferencesFile
                 => /\ conversations' = <<>>
                    /\ gameData' = <<>>
                    /\ userPreferences' = [theme |-> "dark"]
            /\ returned'.file = LargeFile
                 => /\ Len(conversations') = 1
                    /\ conversations'[1].user_message = Text(60 * MiB, {})
                    /\ gameData' = <<>>
                    /\ userPreferences' = NoPreferences
            /\ returned'.file = exported.text
                 => /\ conversations' = exported.conversations
                    /\ gameData' = exported.gameData
                    /\ userPreferences' = exported.userPreferences]_vars

\* C14 witness: the file with preferences only has been imported into a
\* store that had a conversation recorded, and no conversation is left.
C14_Witness ==
    /\ returned.op = "importDataset" /\ returned.value = "true"
    /\ returned.file = PreferencesFile
    /\ Len(lastCleanup.conversations) = 1
    /\ conversations = <<>> /\ gameData = <<>>
    /\ userPreferences = [theme |-> "dark"]

\* C15: when importDataset has succeeded, the store's estimated serialized
\* size is at most maxStorage, as it is meant to be after every insert.
C15_SizeWithinCeilingAfterImport ==
    (returned.op = "importDataset" /\ returned.value = "true")
       => getTotalDataSize(conversations, gameData) <= maxStorage

\* C16: when generate_response returns the pointer 0, generateResponse ends
\* in an error and returns no string, the empty one included; it reads no
\* memory and frees nothing, so neither reads nor frees address 0.
C16_ZeroPointerFails ==
    (lastCall.op = "generate" /\ lastCall.foreign = "zeroPtr")
       => /\ lastCall.result = "GenerationFailed"
          /\ lastCall.reads = {}
          /\ 0 \notin lastCall.frees

\* C16 witness: generate_response has just returned 0 to an engine with a
\* model loaded.
C16_Witness ==
    /\ EngineState = "ModelLoaded"
    /\ lastCall.op = "generate" /\ lastCall.foreign = "zeroPtr"
    /\ lastCall.result = "GenerationFailed" /\ lastCall.calls = 2

\* C17: trainOnData called with a model loaded returns true exactly when
\* train_model has returned status 0; with a nonzero status or a foreign
\* call that throws it returns false.
C17_TrainSucceedsOnStatusZero ==
    [][(lastCall'.op = "train" /\ EngineState = "ModelLoaded")
       => /\ lastCall'.result \in {"true", "false"}
          /\ lastCall'.result = "true" <=> lastCall'.foreign = "ok"]_vars

\* C17 witness: train_model has just returned a nonzero status and
\* trainOnData has returned false.
C17_Witness ==
    /\ EngineState = "ModelLoaded"
    /\ lastCall.op = "train" /\ lastCall.foreign = "nonzero"
    /\ lastCall.result = "false" /\ lastCall.calls = 3

\* C18: getMemoryUsage returns a usage record in every engine state, unless
\* the runtime itself throws: the record of zeros while the engine is
\* Uninitialized, where it calls no export, and the runtime's figures after.
C18_UsageRecordInEveryState ==
    (lastCall.op = "getMemoryUsage" /\ lastCall.foreign \in {"none", "ok"})
       => lastCall.result = "usage"

\* C21: when the engine has been initialized and the base model cannot be
\* fetched, or loadModel reports failure, init() still completes: the store
\* exists, isInitialized is set, the welcome message is shown and the engine
\* is Ready; and every message sent while the application is in that state
\* is answered by getSmartResponse, without the engine.
C21_BaseModelFailureNotFatal ==
    /\ [][(appPending = "fetch" /\ appPending' = "none" /\ currentModel' = NoModel)
          => /\ appInitialized' /\ datasetBuilder' /\ ollamaEngine'
             /\ EngineState' = "Ready"
             /\ lastApp'.replies = <<WelcomeMessage>>]_vars
    /\ []((/\ appInitialized /\ EngineState = "Ready"
           /\ lastApp.op = "sendMessage" /\ lastApp.replies # <<>>)
          => /\ ~lastApp.generate /\ ~lastApp.thrown
             /\ lastApp.replies = <<getSmartResponse(lastApp.message[1])>>)

\* C21 witness: the fetch of the base model failed, init() completed, and a
\* greeting has been answered with the canned reply and recorded.
C21_Witness ==
    /\ appInitialized /\ datasetBuilder /\ EngineState = "Ready"
    /\ heap = {} /\ lastCall.op = "initialize"
    /\ lastApp.op = "sendMessage" /\ ~lastApp.generate
    /\ Len(lastApp.replies) = 1 /\ lastApp.replies[1].id = "privet"
    /\ Len(conversations) = 1

\* C22: a loadModel(newName, blob) that succeeds on an engine with a model
\* loaded makes newName the current model, stores for newName the descriptor
\* of the new blob (loaded, and the new length) whatever was stored for it
\* before, and leaves the descriptors of the other names as they were.
C22_ReloadReplacesDescriptor ==
    [][(/\ lastCall'.op = "loadModel" /\ lastCall'.result = "true"
        /\ EngineState = "ModelLoaded")
       => LET newName == lastCall'.args[1]
              size == lastCall'.args[2]
          IN  /\ currentModel' = newName
              /\ DOMAIN models' = DOMAIN models \cup {newName}
              /\ models'[newName] = [loaded |-> TRUE, size |-> size]
              /\ \A n \in DOMAIN models \ {newName} : models'[n] = models[n]]_vars

\* C22 witness: with two descriptors stored, tiny-llama has been loaded
\* again with a blob of another length; its descriptor carries the new
\* length and custom's is still there.
C22_Witness ==
    /\ lastCall.op = "loadModel" /\ lastCall.result = "true"
    /\ lastCall.args = <<"tiny-llama", 0>>
    /\ currentModel = "tiny-llama"
    /\ DOMAIN models = {"tiny-llama", "custom"}
    /\ models["tiny-llama"].size = 0 /\ models["custom"].size = 4
    /\ instance = 2

\* C23: a generateResponse, trainOnData or saveModel that fails, by a throw
\* or by returning false, leaves isInitialized, currentModel and the models
\* map as they were, and with them the engine state that decides which
\* calls are accepted next.
C23_FailedCallKeepsEngine ==
    [][(/\ lastCall'.op \in {"generate", "train", "saveModel"}
        /\ lastCall'.result \in {"false", "ForeignError", "GenerationFailed",
                                 "EngineNotReady"})
       => /\ UNCHANGED <<isInitialized, currentModel, models>>
          /\ EngineState' = EngineState]_vars

\* C23 witness: with two models stored, export_model has just thrown in
\* saveModel, and the engine still has its model.
C23_Witness ==
    /\ lastCall.op = "saveModel" /\ lastCall.foreign = "callThrows"
    /\ lastCall.result = "false"
    /\ EngineState = "ModelLoaded"
    /\ DOMAIN models = {"tiny-llama", "custom"}

\* The weight the design gives a message of this length, topic and
\* sentiment, in thousandths: the three factors (in tenths) multiplied at
\* once, at most 2.
DesignWeight(length, topic, sentiment) ==
    LET long == IF length > 50 THEN 12 ELSE 10
        taught == IF topic \in {"programming", "science", "technical"} THEN 15 ELSE 10
        mood == IF sentiment = "negative" THEN 7 ELSE 10
    IN  Min(2000, long * taught * mood)

\* C24: the weight of every conversation, as calculateExampleWeight gives it
\* and as the batch carries it, is min(2, 1.0 * 1.2 (text longer than 50)
\* * 1.5 (topic programming, science or technical) * 0.7 (sentiment
\* negative)); a technical message of 60 units that is not negative weighs
\* 1.8, and a message of exactly 50 units has no factor 1.2.
C24_ConversationWeightFormula ==
    \A i \in 1..Len(conversations) :
       LET c == conversations[i]
           length == c.user_message.length
           weight == calculateExampleWeight(c)
       IN  /\ weight = DesignWeight(length, c.metadata.topic, c.metadata.sentiment)
           /\ returned.op = "prepareTrainingData" => returned.value[i].weight = weight
           /\ (length = 60 /\ c.metadata.topic = "technical"
                 /\ c.metadata.sentiment # "negative") => weight = 1800
           /\ length = 50 => weight \in {1000, 1500, 700, 1050}

\* C24 witness: a batch holds the example of a negative programming message
\* of exactly 50 units, weighted 1.05.
C24_Witness ==
    /\ returned.op = "prepareTrainingData"
    /\ Len(conversations) = 1
    /\ conversations[1].user_message.length = 50
    /\ conversations[1].metadata.topic = "programming"
    /\ conversations[1].metadata.sentiment = "negative"
    /\ returned.value[1].weight = 1050

\* C25: a session recorded after k others has improvement_rate 0 when
\* k < 2, and otherwise (a_last - a_first) / (m - 1) over the m = min(k, 5)
\* sessions recorded just before it, the session itself not among them;
\* after the accuracies 10, 20, 30, 40, 50 the rate is 10.  (The rate is
\* held in twelfths; nothing is evicted in SpecSessions, so the sessions
\* before the j-th are the first j - 1 of the store.)
C25_ImprovementRate ==
    \A j \in 1..Len(gameData) :
       LET k == j - 1
           m == Min(k, 5)
           rate == gameData[j].learning_metrics.improvement_rate
       IN  /\ k < 2 => rate = 0
           /\ k >= 2 => rate * (m - 1) =
                           12 * (gameData[j - 1].learning_metrics.accuracy
                                   - gameData[j - m].learning_metrics.accuracy)
           /\ (k = 5 /\ [i \in 1..5 |-> gameData[i].learning_metrics.accuracy]
                           = <<10, 20, 30, 40, 50>>)
                 => rate = 10 * 12

\* C25 witness: a seventh session has been recorded after 50, 10, 20, 30,
\* 40, 50: its window leaves the first session out and its rate is 10.
C25_Witness ==
    /\ Len(gameData) = 7
    /\ [i \in 1..6 |-> gameData[i].learning_metrics.accuracy] = <<50, 10, 20, 30, 40, 50>>
    /\ gameData[7].learning_metrics.improvement_rate = 120

\* C26: the topic of a recorded message is the first of programming,
\* science, learning, creative, technical one of whose keywords the
\* lowercased message contains, and general when it contains none; a
\* message matching several categories gets the earliest of them.  (The
\* messages of SpecClassify contain at most the keywords kod, fizik, kurs,
\* ideya, telefon, one of each category.)
C26_FirstMatchingTopic ==
    \A c \in 1..Len(conversations) :
       LET order == <<"programming", "science", "learning", "creative", "technical">>
           keyword == <<"kod", "fizik", "kurs", "ideya", "telefon">>
           hits == conversations[c].user_message.hits
           topic == conversations[c].metadata.topic
       IN  /\ topic = "general" <=> \A i \in 1..5 : keyword[i] \notin hits
           /\ \A i \in 1..5 :
                 topic = order[i] <=>
                    /\ keyword[i] \in hits
                    /\ \A j \in 1..(i - 1) : keyword[j] \notin hits

\* C26 witness: a message containing a science, a creative and a technical
\* keyword has been recorded as science.
C26_Witness ==
    /\ Len(conversations) = 1
    /\ conversations[1].user_message.hits = {"telefon", "ideya", "fizik"}
    /\ conversations[1].metadata.topic = "science"

\* C27: whenever the engine is ModelLoaded, the runtime instance it holds is
\* one that has accepted a model by a successful load_model: no sequence of
\* calls leaves generate or train permitted against an instance that never
\* accepted one.
C27_LoadedInstanceHeld ==
    EngineState = "ModelLoaded" => runtimeModel

\* C28: currentModel is non-null only on an initialized engine, and a
\* non-null currentModel is a key of models whose descriptor has loaded set.
C28_CurrentModelIsLoadedKey ==
    currentModel # NoModel
       => /\ isInitialized
          /\ currentModel \in DOMAIN models
          /\ models[currentModel].loaded

\* C28 witness: two models have been loaded, the second being current, and
\* a later loadModel of the first has failed.
C28_Witness ==
    /\ DOMAIN models = {"tiny-llama", "custom"}
    /\ currentModel = "custom"
    /\ lastCall.op = "loadModel" /\ lastCall.result = "false"

\* C29: whenever cleanupOldData runs on a collection that is not empty, the
\* collection ends strictly smaller than it was; a collection of exactly
\* one record ends empty.
C29_EvictionShrinks ==
    lastCleanup.ran
       => /\ lastCleanup.conversations # <<>>
                => Len(conversations) < Len(lastCleanup.conversations)
          /\ lastCleanup.gameData # <<>>
                => Len(gameData) < Len(lastCleanup.gameData)
          /\ Len(lastCleanup.conversations) = 1 => conversations = <<>>
          /\ Len(lastCleanup.gameData) = 1 => gameData = <<>>

\* C30: an importDataset that fails, on a text that is not JSON, on the text
\* null or on a read error, leaves conversations, gameData and
\* userPreferences exactly as they were before the call; the text that is
\* not JSON and the text null do fail.
C30_FailedImportKeepsStore ==
    [][(/\ returned'.op = "importDataset"
        /\ BagCardinality(pendingImport') < BagCardinality(pendingImport))
       => /\ returned'.file \in {MalformedFile, NullFile} => returned'.value # "true"
          /\ returned'.value # "true"
                => /\ returned'.value \in {"ParseError", "ReadError"}
                   /\ UNCHANGED <<conversations, gameData, userPreferences>>]_vars

\* C30 witness: the text null has been read into a store that held a
\* conversation and preferences; the import failed and both are still there.
C30_Witness ==
    /\ returned.op = "importDataset" /\ returned.value = "ParseError"
    /\ returned.file = NullFile
    /\ Len(conversations) = 1
    /\ userPreferences = [theme |-> "dark"]

====
